---- MODULE Spec2Model ----
(***************************************************************************)
(* A model of src/dart.rs of notmecab-rs: loading a MeCab double-array     *)
(* trie dictionary (load_mecab_dart_file) and the queries of DartDict.     *)
(*                                                                         *)
(* Representation.                                                         *)
(*   - A u32 of a Link (base, check) is a pair <<hi, lo>> of 16-bit        *)
(*     halves, so that values at and above 2^31 and the carry out of bit   *)
(*     31 are represented exactly.  Header fields, whose sampled values    *)
(*     are small, are plain naturals.                                      *)
(*   - A String is the sequence of its UTF-8 bytes; a Vec<char> is a       *)
(*     sequence of code points.                                            *)
(*   - A FormatToken is the index FormatToken::read was given for it.      *)
(***************************************************************************)
EXTENDS Integers, Sequences, FiniteSets, TLC

(***************************************************************************)
(* Bounds of the model.                                                    *)
(***************************************************************************)
MaxLinks == 4
MaxTokens == 2
MaxFeature == 1
MaxKeyCp == 2
MaxKeys == 2

(***************************************************************************)
(* u32 arithmetic on <<hi, lo>> pairs.                                     *)
(***************************************************************************)
HalfWord == 256 * 256

U32(hi, lo) == <<hi, lo>>

\* a + n for 0 <= n <= 256: the wrapped sum and whether it left the u32 range
Add32(a, n) ==
    LET lo == a[2] + n
        hi == a[1] + (lo \div HalfWord)
    IN  [val |-> <<hi % HalfWord, lo % HalfWord>>, overflow |-> hi >= HalfWord]

\* !a
Not32(a) == <<(HalfWord - 1) - a[1], (HalfWord - 1) - a[2]>>

\* a >= 0x8000_0000
MsbSet(a) == a[1] >= 32768

\* a / 0x100 and a % 0x100 of a pointer (the quotient is below 2^24)
Div256(a) == a[1] * 256 + (a[2] \div 256)
Mod256(a) == a[2] % 256

\* (a as usize) < n, for a table length n below 2^16
UsizeLess(a, n) == a[1] = 0 /\ a[2] < n

\* links[a as usize], for an index in bounds (sequences are 1-based)
LinkAt(links, a) == links[a[2] + 1]

(***************************************************************************)
(* Strings: NUL-terminated buffers, UTF-8 decoding and encoding.           *)
(***************************************************************************)
IsCont(b) == b >= 128 /\ b <= 191

\* the scalar value that starts at byte p of bs: [len, cp], len = 0 when the
\* bytes at p are not well-formed UTF-8
DecodeAt(bs, p) ==
    LET n  == Len(bs)
        b0 == bs[p]
        b1 == IF p + 1 <= n THEN bs[p + 1] ELSE 0
        b2 == IF p + 2 <= n THEN bs[p + 2] ELSE 0
        b3 == IF p + 3 <= n THEN bs[p + 3] ELSE 0
        bad == [len |-> 0, cp |-> 0]
    IN  IF b0 < 128 THEN [len |-> 1, cp |-> b0]
        ELSE IF b0 >= 194 /\ b0 <= 223
        THEN IF IsCont(b1) THEN [len |-> 2, cp |-> (b0 - 192) * 64 + (b1 - 128)]
             ELSE bad
        ELSE IF b0 >= 224 /\ b0 <= 239
        THEN IF /\ IsCont(b1) /\ IsCont(b2)
                /\ (b0 = 224 => b1 >= 160)
                /\ (b0 = 237 => b1 <= 159)
             THEN [len |-> 3, cp |-> (b0 - 224) * 4096 + (b1 - 128) * 64 + (b2 - 128)]
             ELSE bad
        ELSE IF b0 >= 240 /\ b0 <= 244
        THEN IF /\ IsCont(b1) /\ IsCont(b2) /\ IsCont(b3)
                /\ (b0 = 240 => b1 >= 144)
                /\ (b0 = 244 => b1 <= 143)
             THEN [len |-> 4, cp |-> (b0 - 240) * 262144 + (b1 - 128) * 4096
                                      + (b2 - 128) * 64 + (b3 - 128)]
             ELSE bad
        ELSE bad

RECURSIVE Utf8DecodeFrom(_, _)
\* [ok, cps]: the code points of bs from byte p on
Utf8DecodeFrom(bs, p) ==
    IF p > Len(bs) THEN [ok |-> TRUE, cps |-> <<>>]
    ELSE LET d == DecodeAt(bs, p)
         IN  IF d.len = 0 THEN [ok |-> FALSE, cps |-> <<>>]
             ELSE LET r == Utf8DecodeFrom(bs, p + d.len)
                  IN  [ok |-> r.ok, cps |-> <<d.cp>> \o r.cps]

Utf8Valid(bs) == Utf8DecodeFrom(bs, 1).ok

\* char -> its UTF-8 bytes
EncodeChar(cp) ==
    IF cp < 128 THEN <<cp>>
    ELSE IF cp < 2048 THEN <<192 + (cp \div 64), 128 + (cp % 64)>>
    ELSE IF cp < 65536
    THEN <<224 + (cp \div 4096), 128 + ((cp \div 64) % 64), 128 + (cp % 64)>>
    ELSE <<240 + (cp \div 262144), 128 + ((cp \div 4096) % 64),
           128 + ((cp \div 64) % 64), 128 + (cp % 64)>>

RECURSIVE CollectString(_)
\* chars.iter().collect::<String>()
CollectString(cps) ==
    IF cps = <<>> THEN <<>> ELSE EncodeChar(Head(cps)) \o CollectString(Tail(cps))

\* codepoints(&String) -> Vec<char>
codepoints(s) == Utf8DecodeFrom(s, 1).cps

\* the bytes of buf before its first NUL
TrimAtNull(buf) ==
    LET nuls == {p \in 1..Len(buf) : buf[p] = 0}
    IN  IF nuls = {} THEN buf
        ELSE SubSeq(buf, 1, (CHOOSE p \in nuls : \A q \in nuls : p <= q) - 1)

\* read_str_buffer(&[u8]) -> Result<String, _>
read_str_buffer(buf) ==
    LET s == TrimAtNull(buf)
    IN  IF Utf8Valid(s) THEN [ok |-> TRUE, str |-> s] ELSE [ok |-> FALSE, str |-> <<>>]

(***************************************************************************)
(* Link validation.                                                        *)
(***************************************************************************)
\* mutant: the comparison of links[to].check with from is left out
check_valid_link_IgnoreCheck(links, from, to) ==
    IF ~UsizeLess(to, Len(links)) THEN 1
    ELSE IF LinkAt(links, to).base = from THEN 3
    ELSE 0

\* mutant: the comparison of links[to].base with from is left out
check_valid_link_NoBaseRule(links, from, to) ==
    IF ~UsizeLess(to, Len(links)) THEN 1
    ELSE IF LinkAt(links, to).check # from THEN 2
    ELSE 0

\* check_valid_link: 0 for Ok(()), otherwise the Err code
check_valid_link(links, from, to) ==
    IF ~UsizeLess(to, Len(links)) THEN 1
    ELSE IF LinkAt(links, to).check # from THEN 2
    ELSE IF LinkAt(links, to).base = from THEN 3
    ELSE 0

\* check_valid_out: 0 for Ok(()), otherwise the Err code
check_valid_out(links, from, to) ==
    IF check_valid_link(links, from, to) # 0 THEN check_valid_link(links, from, to)
    ELSE IF ~MsbSet(LinkAt(links, to).base) THEN -1
    ELSE 0

(***************************************************************************)
(* The input: the caller's magic and the byte stream.  The header is part  *)
(* of the initial state; the Link records behind it are drawn when they    *)
(* are read.                                                               *)
(***************************************************************************)
ArgMagicSamples == {48879}                    \* 0xBEEF
MagicSamples == {48879, 57005}                \* 0xBEEF, 0xDEAD
VersionSamples == {102, 101}                  \* 0x66, 0x65
ContextSamples == {<<3, 5>>}
LinkBytesSamples == {8 * n : n \in 0..MaxLinks} \cup {12}
TokenBytesSamples == {0, 16 * MaxTokens, 24}
FeatureBytesSamples == {0, MaxFeature}
NameUtf8 == <<85, 84, 70, 45, 56>>            \* "UTF-8"
NameEucJp == <<69, 85, 67, 45, 74, 80>>       \* "EUC-JP"
\* a name in its fixed 0x20-byte field, NUL padded
NameField(name) == name \o [k \in 1..(32 - Len(name)) |-> 0]
EncodingSamples == {NameField(NameUtf8), NameField(NameEucJp)}
FeatureByteSamples == {65}

\* The section sizes are sampled pairwise: a table of more than one Link comes
\* with an empty token table and feature store, or with both filled.
SizesSampled(h) ==
    h.linkbytes > 8 => ((h.tokenbytes = 0) <=> (h.featurebytes = 0))

Headers ==
    { h \in [magic : MagicSamples, version : VersionSamples, contexts : ContextSamples,
              linkbytes : LinkBytesSamples, tokenbytes : TokenBytesSamples,
              featurebytes : FeatureBytesSamples, encoding : EncodingSamples] :
        SizesSampled(h) }

HeaderBytes == 72                             \* 0x48, where the Link table starts

\* Stream lengths: complete, cut inside the header and, for the tables of at
\* most one Link, cut inside the Link table and one byte before the end.
StreamLenSamples(h) ==
    LET full == HeaderBytes + h.linkbytes + h.tokenbytes + h.featurebytes
    IN  {4, 36, full}
        \cup (IF full > HeaderBytes /\ h.linkbytes <= 8 THEN {full - 1} ELSE {})
        \cup (IF h.linkbytes = 8 THEN {HeaderBytes + h.linkbytes - 4} ELSE {})

\* base values: trie offsets 0, 1, 3; output markers !0x0101 (first 1, count 1),
\* !0x0002 (first 0, count 2) and !0x80 = 0xFFFF_FF7F (first 0, count 128)
B0 == U32(0, 0)
B1 == U32(0, 1)
B3 == U32(0, 3)
OutA == U32(65535, 65278)
OutC == U32(65535, 65533)
OutB == U32(65535, 65407)
LinkSamples ==
    { [base |-> B1, check |-> B0], [base |-> B0, check |-> B1],
      [base |-> OutA, check |-> B1], [base |-> B3, check |-> B1],
      [base |-> OutC, check |-> B3], [base |-> OutB, check |-> B3],
      [base |-> B3, check |-> OutB], [base |-> B1, check |-> B1] }

VARIABLES
    arg_magic,        \* the caller's expected magic
    hdr,              \* the header fields of the stream
    stream_len,       \* the number of bytes the stream holds
    pos,              \* the stream position
    pc,               \* where load_mecab_dart_file is
    left_contexts, right_contexts, linkbytes, tokenbytes, featurebytes,
    links,            \* Vec<Link>
    tokens,           \* Vec<FormatToken>
    feature_bytes,    \* Vec<u8>
    wrapping,         \* TRUE once a u32 addition has wrapped (a build without overflow checks)
    stack,            \* the frames of collect_links_hashmap: [base, key, i]
    collection,       \* Vec<(String, u32)>
    next_entry,       \* entries_to_tokens: the entries consumed so far
    dictionary,       \* HashMap<String, Vec<FormatToken>>
    ret               \* what the load returned

vars == <<arg_magic, hdr, stream_len, pos, pc, left_contexts, right_contexts,
          linkbytes, tokenbytes, featurebytes, links, tokens, feature_bytes,
          wrapping, stack, collection, next_entry, dictionary, ret>>

input == <<arg_magic, hdr, stream_len>>
locals == <<left_contexts, right_contexts, linkbytes, tokenbytes, featurebytes>>
tables == <<links, tokens, feature_bytes>>
walk == <<wrapping, stack, collection>>
assembly == <<next_entry, dictionary>>

NoRet == [kind |-> "none"]
Err(msg) == [kind |-> "Err", msg |-> msg]
EmptyDict == [k \in {} |-> <<>>]

Blank ==
    /\ pos = 0
    /\ left_contexts = 0 /\ right_contexts = 0
    /\ linkbytes = 0 /\ tokenbytes = 0 /\ featurebytes = 0
    /\ links = <<>> /\ tokens = <<>> /\ feature_bytes = <<>>
    /\ wrapping = FALSE
    /\ stack = <<>> /\ collection = <<>>
    /\ next_entry = 0 /\ dictionary = EmptyDict
    /\ ret = NoRet

Init ==
    /\ arg_magic \in ArgMagicSamples
    /\ hdr \in Headers
    /\ stream_len \in StreamLenSamples(hdr)
    /\ pc = "magic"
    /\ Blank

\* read_u32 and its kin succeed when n more bytes are there
CanRead(n) == pos + n <= stream_len

Fail(msg) ==
    /\ pc' = "returned"
    /\ ret' = Err(msg)

IoError == Fail("IO error")

(***************************************************************************)
(* load_mecab_dart_file: the header.                                       *)
(***************************************************************************)
ReadMagic ==
    /\ pc = "magic"
    /\ IF ~CanRead(4) THEN IoError /\ UNCHANGED pos
       ELSE /\ pos' = pos + 4
            /\ IF hdr.magic # arg_magic
               THEN Fail("not a mecab dic file or is a dic file of the wrong kind")
               ELSE pc' = "version" /\ UNCHANGED ret
    /\ UNCHANGED <<input, locals, tables, walk, assembly>>

ReadVersion ==
    /\ pc = "version"
    /\ IF ~CanRead(4) THEN IoError /\ UNCHANGED pos
       ELSE /\ pos' = pos + 4
            /\ IF hdr.version # 102
               THEN Fail("unsupported version")
               ELSE pc' = "contexts" /\ UNCHANGED ret
    /\ UNCHANGED <<input, locals, tables, walk, assembly>>

\* seek_rel_4, _num_unknown, left_contexts, right_contexts
ReadContexts ==
    /\ pc = "contexts"
    /\ IF ~(pos + 16 <= stream_len)
       THEN IoError /\ UNCHANGED <<pos, left_contexts, right_contexts>>
       ELSE /\ pos' = pos + 16
            /\ left_contexts' = hdr.contexts[1]
            /\ right_contexts' = hdr.contexts[2]
            /\ pc' = "linkbytes" /\ UNCHANGED ret
    /\ UNCHANGED <<input, linkbytes, tokenbytes, featurebytes, tables, walk, assembly>>

ReadLinkBytes ==
    /\ pc = "linkbytes"
    /\ IF ~CanRead(4) THEN IoError /\ UNCHANGED <<pos, linkbytes>>
       ELSE /\ pos' = pos + 4
            /\ linkbytes' = hdr.linkbytes
            /\ IF hdr.linkbytes % 8 # 0
               THEN Fail("dictionary broken: link table stored with number of bytes that is not a multiple of 8")
               ELSE pc' = "tokenbytes" /\ UNCHANGED ret
    /\ UNCHANGED <<input, left_contexts, right_contexts, tokenbytes, featurebytes,
                   tables, walk, assembly>>

\* mutant: token_bytes is taken without the test of its alignment
ReadTokenBytes_Unchecked ==
    /\ pc = "tokenbytes"
    /\ IF ~CanRead(4) THEN IoError /\ UNCHANGED <<pos, tokenbytes>>
       ELSE /\ pos' = pos + 4
            /\ tokenbytes' = hdr.tokenbytes
            /\ pc' = "featurebytes" /\ UNCHANGED ret
    /\ UNCHANGED <<input, left_contexts, right_contexts, linkbytes, featurebytes,
                   tables, walk, assembly>>

ReadTokenBytes ==
    /\ pc = "tokenbytes"
    /\ IF ~CanRead(4) THEN IoError /\ UNCHANGED <<pos, tokenbytes>>
       ELSE /\ pos' = pos + 4
            /\ tokenbytes' = hdr.tokenbytes
            /\ IF hdr.tokenbytes % 16 # 0
               THEN Fail("dictionary broken: token table stored with number of bytes that is not a multiple of 16")
               ELSE pc' = "featurebytes" /\ UNCHANGED ret
    /\ UNCHANGED <<input, left_contexts, right_contexts, linkbytes, featurebytes,
                   tables, walk, assembly>>

\* featurebytes, then seek_rel_4 over the reserved word
ReadFeatureBytes ==
    /\ pc = "featurebytes"
    /\ IF ~CanRead(4) THEN IoError /\ UNCHANGED <<pos, featurebytes>>
       ELSE /\ pos' = pos + 8
            /\ featurebytes' = hdr.featurebytes
            /\ pc' = "encoding" /\ UNCHANGED ret
    /\ UNCHANGED <<input, left_contexts, right_contexts, linkbytes, tokenbytes,
                   tables, walk, assembly>>

\* read_nstr(dic, 0x20): the 0x20 bytes of the field, up to the first NUL
read_nstr(field) == read_str_buffer(field)

\* where the load goes once nl links and nt tokens are read
TablePhase(nl, nt) ==
    IF nl < linkbytes \div 8 THEN "links"
    ELSE IF nt < tokenbytes \div 16 THEN "tokens"
    ELSE "features"

ReadEncoding ==
    /\ pc = "encoding"
    /\ IF ~CanRead(32) THEN IoError /\ UNCHANGED pos
       ELSE IF ~read_nstr(hdr.encoding).ok THEN Fail("read_nstr") /\ UNCHANGED pos
       ELSE /\ pos' = pos + 32
            /\ IF read_nstr(hdr.encoding).str # NameUtf8
               THEN Fail("only UTF-8 dictionaries are supported. stop using legacy encodings for infrastructure!")
               ELSE pc' = TablePhase(0, 0) /\ UNCHANGED ret
    /\ UNCHANGED <<input, locals, tables, walk, assembly>>

(***************************************************************************)
(* load_mecab_dart_file: the three tables.                                 *)
(***************************************************************************)
\* one round of the loop links.push(Link::read(dic)?)
ReadLink ==
    /\ pc = "links"
    /\ IF ~CanRead(8) THEN IoError /\ UNCHANGED <<pos, links>>
       ELSE /\ pos' = pos + 8
            /\ \E l \in LinkSamples : links' = Append(links, l)
            /\ pc' = TablePhase(Len(links) + 1, 0) /\ UNCHANGED ret
    /\ UNCHANGED <<input, locals, tokens, feature_bytes, walk, assembly>>

\* one round of the loop tokens.push(FormatToken::read(dic, tokens.len() as u32)?)
ReadToken ==
    /\ pc = "tokens"
    /\ IF ~CanRead(16) THEN IoError /\ UNCHANGED <<pos, tokens>>
       ELSE /\ pos' = pos + 16
            /\ tokens' = Append(tokens, Len(tokens))
            /\ pc' = TablePhase(Len(links), Len(tokens) + 1) /\ UNCHANGED ret
    /\ UNCHANGED <<input, locals, links, feature_bytes, walk, assembly>>

\* feature_bytes.resize(featurebytes, 0); dic.read_exact(&mut feature_bytes)
ReadFeatures ==
    /\ pc = "features"
    /\ IF ~CanRead(featurebytes) THEN IoError /\ UNCHANGED <<pos, feature_bytes>>
       ELSE /\ pos' = pos + featurebytes
            /\ \E f \in [1..featurebytes -> FeatureByteSamples] : feature_bytes' = f
            /\ pc' = "collect" /\ UNCHANGED ret
    /\ UNCHANGED <<input, locals, links, tokens, walk, assembly>>

(***************************************************************************)
(* collect_links_into_hashmap and collect_links_hashmap.  The recursion is *)
(* an explicit stack; a frame is [base, key, i], i the next byte of the    *)
(* loop for i in 0..0x100.                                                 *)
(***************************************************************************)
\* No base can be on the stack twice unless the walk is in a cycle, and every
\* base is the base of some Link: a deeper stack is an unbounded recursion.
MaxDepth == MaxLinks + 1

Abort(msg) ==
    /\ pc' = "panicked"
    /\ ret' = [kind |-> "Abort", msg |-> msg]

\* mutant: the pointer is pushed without being complemented
Visit_RawPointer(base, key) ==
    IF check_valid_out(links, base, base) = 0 /\ read_str_buffer(key).ok
    THEN Append(collection, [key |-> read_str_buffer(key).str,
                             ptr |-> LinkAt(links, base).base])
    ELSE collection

\* the head of collect_links_hashmap: the entry pushed for (base, key), if any
Visit(base, key) ==
    IF check_valid_out(links, base, base) = 0 /\ read_str_buffer(key).ok
    THEN Append(collection, [key |-> read_str_buffer(key).str,
                             ptr |-> Not32(LinkAt(links, base).base)])
    ELSE collection

\* base+1+i
ChildIndex(base, i) == Add32(base, 1 + i)

\* mutant: a base that is already on the path is not expanded again
ValidChildren_Visited(base, from) ==
    IF \E j \in 1..(Len(stack) - 1) : stack[j].base = base THEN {}
    ELSE {i \in from..255 : check_valid_link(links, base, ChildIndex(base, i).val) = 0}

\* the bytes i at or after from whose link check_valid_link accepts
ValidChildren(base, from) ==
    {i \in from..255 : check_valid_link(links, base, ChildIndex(base, i).val) = 0}

Least(S) == CHOOSE x \in S : \A y \in S : x <= y

AssemblyPhase(n) == IF n < Len(collection) THEN "assemble" ELSE "finish"

\* collect_links_hashmap(&links, links[0].base, &mut collection, &[])
StartWalk ==
    /\ pc = "collect"
    /\ IF Len(links) = 0
       THEN /\ Abort("index out of bounds: links[0]")
            /\ UNCHANGED <<stack, collection>>
       ELSE /\ collection' = Visit(links[1].base, <<>>)
            /\ stack' = << [base |-> links[1].base, key |-> << >>, i |-> 0] >>
            /\ pc' = "walk" /\ UNCHANGED ret
    /\ UNCHANGED <<input, pos, locals, tables, wrapping, assembly>>

\* the recursive call for byte i of frame f, the top of the stack
Descend(f, i) ==
    LET child == LinkAt(links, ChildIndex(f.base, i).val).base
        newkey == Append(f.key, i)
        here == [stack EXCEPT ![Len(stack)].i = i + 1]
    IN  IF Len(stack) >= MaxDepth
        THEN /\ Abort("stack overflow")
             /\ UNCHANGED <<stack, collection>>
        ELSE /\ collection' = Visit(child, newkey)
             /\ stack' = Append(here, [base |-> child, key |-> newkey, i |-> 0])
             /\ UNCHANGED <<pc, ret>>

\* the loop of frame f has no valid child left: the call returns
Return ==
    /\ stack' = SubSeq(stack, 1, Len(stack) - 1)
    /\ pc' = IF Len(stack) = 1 THEN AssemblyPhase(0) ELSE pc
    /\ UNCHANGED <<collection, ret>>

\* The loop of the top frame, up to its next recursive call or its end.  When
\* base+1+i leaves the u32 range, a build with overflow checks panics there and
\* a build without them goes on with the wrapped index.
WalkStep ==
    /\ pc = "walk"
    /\ LET f == stack[Len(stack)]
           V == ValidChildren(f.base, f.i)
           last == IF V = {} THEN 255 ELSE Least(V)
           wraps == \E i \in f.i..last : ChildIndex(f.base, i).overflow
           Go == IF V = {} THEN Return ELSE Descend(f, Least(V))
       IN  IF ~wraps
           THEN Go /\ UNCHANGED wrapping
           ELSE \/ /\ ~wrapping
                   /\ Abort("attempt to add with overflow")
                   /\ UNCHANGED <<wrapping, stack, collection>>
                \/ /\ wrapping' = TRUE
                   /\ Go
    /\ UNCHANGED <<input, pos, locals, tables, assembly>>

(***************************************************************************)
(* entries_to_tokens.                                                      *)
(***************************************************************************)
\* the token indices an entry's pointer names: first .. first+count-1
SliceIndices(ptr) == [i \in 1..Mod256(ptr) |-> Div256(ptr) + (i - 1)]

\* the clones of tokens[first+i], i in 0..count
similar_lexemes(ptr, toks) == [i \in 1..Mod256(ptr) |-> toks[SliceIndices(ptr)[i] + 1]]

\* mutant: entry(k).or_insert(v), the first value of a key is kept
Insert_KeepFirst(d, k, v) == [x \in DOMAIN d \cup {k} |-> IF x \in DOMAIN d THEN d[x] ELSE v]

Insert(d, k, v) == [x \in DOMAIN d \cup {k} |-> IF x = k THEN v ELSE d[x]]

\* one round of the loop for entry in entries
Assemble ==
    /\ pc = "assemble"
    /\ LET e == collection[next_entry + 1]
       IN  IF \E i \in 1..Mod256(e.ptr) : SliceIndices(e.ptr)[i] >= Len(tokens)
           THEN /\ Abort("index out of bounds: tokens[first+i]")
                /\ UNCHANGED assembly
           ELSE /\ dictionary' = Insert(dictionary, e.key, similar_lexemes(e.ptr, tokens))
                /\ next_entry' = next_entry + 1
                /\ pc' = AssemblyPhase(next_entry + 1) /\ UNCHANGED ret
    /\ UNCHANGED <<input, pos, locals, tables, walk>>

(***************************************************************************)
(* The prefix index and the returned DartDict.                             *)
(***************************************************************************)
\* mutant: the loop runs over 1..=codepoints.len()
contains_longer_Inclusive(d) ==
    UNION { { CollectString(SubSeq(codepoints(k), 1, i)) :
                i \in 1..Len(codepoints(k)) } : k \in DOMAIN d }

\* the strings the loop over dictionary.keys() inserts
contains_longer(d) ==
    UNION { { CollectString(SubSeq(codepoints(k), 1, i)) :
                i \in 1..(Len(codepoints(k)) - 1) } : k \in DOMAIN d }

FinishLoad ==
    /\ pc = "finish"
    /\ ret' = [kind |-> "Ok", dict |-> dictionary,
               contains_longer |-> contains_longer(dictionary),
               left_contexts |-> left_contexts, right_contexts |-> right_contexts,
               feature_bytes |-> feature_bytes]
    /\ pc' = "returned"
    /\ UNCHANGED <<input, pos, locals, tables, walk, assembly>>

\* mutant: only the prefix index is asked
may_contain_IndexOnly(d, find) == find \in d.contains_longer

\* DartDict::may_contain
may_contain(d, find) == find \in d.contains_longer \/ find \in DOMAIN d.dict

\* DartDict::dic_get
dic_get(d, find) ==
    IF find \in DOMAIN d.dict THEN [some |-> TRUE, val |-> d.dict[find]]
    ELSE [some |-> FALSE, val |-> <<>>]

Next ==
    \/ ReadMagic \/ ReadVersion \/ ReadContexts \/ ReadLinkBytes \/ ReadTokenBytes
    \/ ReadFeatureBytes \/ ReadEncoding
    \/ ReadLink \/ ReadToken \/ ReadFeatures
    \/ StartWalk \/ WalkStep \/ Assemble \/ FinishLoad

Spec == Init /\ [][Next]_vars

(***************************************************************************)
(* Properties.                                                             *)
(***************************************************************************)
Top == stack[Len(stack)]

\* C1: the load ends with an error value or with a DartDict, and in no other
\* way: it never aborts (no index out of bounds on links or tokens, no
\* arithmetic panic, no exhausted stack).
C1_ErrOrDictOnly ==
    /\ pc # "panicked"
    /\ pc = "returned" => ret.kind \in {"Err", "Ok"}

\* the error of the first failing header field, in the order magic, version,
\* link_bytes, token_bytes, encoding; "none" for a header that passes
FirstHeaderError(h, expected) ==
    IF h.magic # expected
    THEN "not a mecab dic file or is a dic file of the wrong kind"
    ELSE IF h.version # 102 THEN "unsupported version"
    ELSE IF h.linkbytes % 8 # 0
    THEN "dictionary broken: link table stored with number of bytes that is not a multiple of 8"
    ELSE IF h.tokenbytes % 16 # 0
    THEN "dictionary broken: token table stored with number of bytes that is not a multiple of 16"
    ELSE IF TrimAtNull(h.encoding) # NameUtf8
    THEN "only UTF-8 dictionaries are supported. stop using legacy encodings for infrastructure!"
    ELSE "none"

HeaderPcs == {"magic", "version", "contexts", "linkbytes", "tokenbytes",
              "featurebytes", "encoding"}

U32Samples == {B0, B1, B3, OutA, OutB, OutC, U32(0, 2), U32(0, 4), U32(1, 0)}

\* C6: check_valid_link accepts (from, to) exactly when to is inside the
\* table, links[to].check is from and links[to].base is not from.
C6_ValidLinkIff ==
    \A from \in U32Samples, to \in U32Samples :
        (check_valid_link(links, from, to) = 0) <=>
            /\ to[1] = 0 /\ to[2] + 1 \in DOMAIN links
            /\ links[to[2] + 1].check = from
            /\ links[to[2] + 1].base # from

\* C6 witness: one table on which an acceptance and each of the three
\* rejections happen.
C6_Witness ==
    pc = "walk" /\ \A code \in 0..3 :
        \E from \in U32Samples, to \in U32Samples :
            check_valid_link(links, from, to) = code

\* C8: a recursive call made while base b is expanded is never a call with
\* base b.
C8_NoSelfRecursion ==
    [][(pc = "walk" /\ pc' = "walk" /\ Len(stack') = Len(stack) + 1)
        => stack'[Len(stack')].base # Top.base]_vars

\* C8 witness: the walker has recursed, and a link of the table it walks
\* names a frame's base as its origin and as its own base.
C8_Witness ==
    /\ pc = "walk" /\ Len(stack) >= 2
    /\ \E k \in 1..Len(stack), i \in 0..255 :
          check_valid_link(links, stack[k].base, ChildIndex(stack[k].base, i).val) = 3

\* a base is on the current path twice
StackRepeats ==
    \E j \in 1..Len(stack), k \in 1..Len(stack) : j < k /\ stack[j].base = stack[k].base

OnCycle == pc = "walk" /\ StackRepeats

\* the depth bound of the model only ends walks that are in a cycle
DepthBoundMeansCycle ==
    (pc = "panicked" /\ ret.msg = "stack overflow") => StackRepeats

\* every frame but the first was entered over a link check_valid_link accepts
PathIsValid ==
    \A k \in 2..Len(stack) :
        LET from == stack[k - 1].base
            to == ChildIndex(from, stack[k - 1].i - 1).val
        IN  /\ check_valid_link(links, from, to) = 0
            /\ LinkAt(links, to).base = stack[k].base

\* C9: over links that all pass check_valid_link the walk can reach a base it
\* is already expanding, and from then on it never unwinds: the recursion only
\* ends by aborting.
C9_CycleNeverEnds ==
    /\ [](pc = "walk" => PathIsValid)
    /\ [][OnCycle => (OnCycle' \/ pc' = "panicked")]_vars

\* C9 witness: base A is being expanded below base B below base A, without any
\* wrapped addition.
C9_Witness ==
    /\ pc = "walk" /\ ~wrapping /\ Len(stack) >= 3
    /\ stack[Len(stack)].base = stack[Len(stack) - 2].base
    /\ stack[Len(stack)].base # stack[Len(stack) - 1].base
    /\ PathIsValid

\* C10: for every base the walker expands and every byte i, base + 1 + i
\* stays within u32.
C10_NoOverflow ==
    pc = "walk" => \A i \in 0..255 : ~ChildIndex(Top.base, i).overflow

\* the token list the claim C3 names for a pointer: count = ptr % 256 records,
\* the i-th the record at index ptr / 256 + i
ExpectedTokens(ptr) == [i \in 1..(ptr[2] % 256) |-> tokens[(ptr[1] * 256 + ptr[2] \div 256) + (i - 1) + 1]]

\* entry n is the last one collected with its key
LastOfKey(n) == \A m \in (n + 1)..Len(collection) : collection[m].key # collection[n].key

\* C3 as stated: after assembly, dic_get(key) is the slice of the token table
\* named by the pointer, for every collected (key, pointer).
C3_EveryEntryServed ==
    (pc = "returned" /\ ret.kind = "Ok") =>
        \A n \in 1..Len(collection) :
            dic_get(ret, collection[n].key) =
                [some |-> TRUE, val |-> ExpectedTokens(collection[n].ptr)]

\* C3 as amended: after assembly, dic_get(key) is the slice of the token table
\* named by the pointer of the last entry collected with that key.
C3_LastEntryServed ==
    (pc = "returned" /\ ret.kind = "Ok") =>
        \A n \in 1..Len(collection) :
            LastOfKey(n) =>
                dic_get(ret, collection[n].key) =
                    [some |-> TRUE, val |-> ExpectedTokens(collection[n].ptr)]

\* C3 witness: a load has returned a dictionary from a walk that collected the
\* same key twice with different pointers, the later one naming tokens.
C3_Witness ==
    /\ pc = "returned" /\ ret.kind = "Ok"
    /\ \E n \in 1..Len(collection), m \in 1..Len(collection) :
          /\ n < m /\ LastOfKey(m)
          /\ collection[n].key = collection[m].key
          /\ collection[n].ptr # collection[m].ptr
          /\ Mod256(collection[m].ptr) > 0

\* the walk has run to its end
WalkDone == pc \in {"assemble", "finish"} \/ (pc = "returned" /\ ret.kind = "Ok")

\* the byte paths of length up to n from links[0].base: [key, base], each byte
\* i a step from base b over link b+1+i, accepted by check_valid_link, to its base
RECURSIVE PathsUpTo(_)
PathsUpTo(n) ==
    IF n = 0 THEN {[key |-> <<>>, base |-> links[1].base]}
    ELSE LET shorter == PathsUpTo(n - 1)
             steps == { q \in {r \in shorter : Len(r.key) = n - 1} \X (0..255) :
                          check_valid_link(links, q[1].base, ChildIndex(q[1].base, q[2]).val) = 0 }
         IN  shorter \cup
             { [key |-> Append(q[1].key, q[2]),
                base |-> LinkAt(links, ChildIndex(q[1].base, q[2]).val).base] : q \in steps }

\* the paths that end on an output link and whose bytes decode
OutputPaths ==
    { p \in PathsUpTo(MaxDepth) :
        /\ check_valid_link(links, p.base, p.base) = 0
        /\ MsbSet(LinkAt(links, p.base).base)
        /\ read_str_buffer(p.key).ok }

\* depth-first pre-order with sibling bytes ascending: a path comes before
\* its extensions, and otherwise the smaller byte at the first difference wins
Before(u, v) ==
    \/ Len(u) < Len(v) /\ SubSeq(v, 1, Len(u)) = u
    \/ \E p \in 1..Len(u) :
          /\ p <= Len(v)
          /\ SubSeq(u, 1, p - 1) = SubSeq(v, 1, p - 1)
          /\ u[p] < v[p]

\* the entries C7 names, in its order
ExpectedCollection ==
    LET paths == OutputPaths
    IN  [n \in 1..Cardinality(paths) |->
            LET p == CHOOSE q \in paths :
                        Cardinality({r \in paths : Before(r.key, q.key)}) = n - 1
            IN  [key |-> read_str_buffer(p.key).str,
                 ptr |-> Not32(LinkAt(links, p.base).base)]]

\* C7: when the walk ends, the collected entries are one per output path, in
\* depth-first pre-order, each with the decoded path as key and the
\* complement of the output link's base as pointer.
C7_CollectedEntries == WalkDone => collection = ExpectedCollection

\* C7 witness: a finished walk that collected two entries or more under
\* different keys.
C7_Witness ==
    /\ WalkDone
    /\ Len(collection) >= 2
    /\ collection[1].key # collection[2].key

\* C7 witness of the dropped entry: a finished walk passed an output link whose
\* bytes do not decode, and collected nothing for it.
C7_DroppedWitness ==
    /\ WalkDone
    /\ \E p \in PathsUpTo(MaxDepth) :
          /\ check_valid_out(links, p.base, p.base) = 0
          /\ ~read_str_buffer(p.key).ok

(***************************************************************************)
(* The prefix index on its own: the dictionary is drawn from sets of keys  *)
(* with one-, two- and three-byte characters, and lines 205-217 run on it. *)
(* The tables such a dictionary comes from are not represented.            *)
(***************************************************************************)
KeyCpSamples == {97, 233, 12354}              \* 'a', U+00E9, U+3042

RECURSIVE CpSeqs(_)
\* the sequences of at most n sampled characters
CpSeqs(n) ==
    IF n = 0 THEN {<<>>}
    ELSE CpSeqs(n - 1) \cup
         {Append(t, c) : t \in {u \in CpSeqs(n - 1) : Len(u) = n - 1}, c \in KeyCpSamples}

KeySamples == {CollectString(c) : c \in CpSeqs(MaxKeyCp)}

RECURSIVE KeySets(_)
\* the sets of at most n sampled keys
KeySets(n) ==
    IF n = 0 THEN {{}}
    ELSE KeySets(n - 1) \cup {K \cup {k} : K \in KeySets(n - 1), k \in KeySamples}

InitPrefix ==
    /\ arg_magic \in ArgMagicSamples
    /\ hdr = [magic |-> arg_magic, version |-> 102, contexts |-> <<3, 5>>,
              linkbytes |-> 0, tokenbytes |-> 0, featurebytes |-> 0,
              encoding |-> NameField(NameUtf8)]
    /\ stream_len = HeaderBytes
    /\ pos = HeaderBytes
    /\ left_contexts = 3 /\ right_contexts = 5
    /\ linkbytes = 0 /\ tokenbytes = 0 /\ featurebytes = 0
    /\ links = <<>> /\ tokens = <<>> /\ feature_bytes = <<>>
    /\ wrapping = FALSE
    /\ stack = <<>> /\ collection = <<>>
    /\ next_entry = 0
    /\ \E K \in KeySets(MaxKeys) : dictionary = [k \in K |-> <<>>]
    /\ ret = NoRet
    /\ pc = "finish"

SpecPrefix == InitPrefix /\ [][FinishLoad]_vars

\* s is shorter than k, counted in code points, and k starts with s
StrictCpPrefix(s, k) ==
    /\ Len(codepoints(s)) < Len(codepoints(k))
    /\ SubSeq(codepoints(k), 1, Len(codepoints(s))) = codepoints(s)

HasLongerKey(d, s) == \E k \in DOMAIN d.dict : StrictCpPrefix(s, k)

Loaded == pc = "returned" /\ ret.kind = "Ok"

\* C4 as stated: a string, the empty one included, is in contains_longer
\* exactly when some key is longer and starts with it.
C4_PrefixIndexIff ==
    Loaded =>
        /\ \A s \in KeySamples : s \in ret.contains_longer <=> HasLongerKey(ret, s)
        /\ \A s \in ret.contains_longer : HasLongerKey(ret, s)

\* C4 as amended: a non-empty string is in contains_longer exactly when some
\* key is longer and starts with it; the empty string never is.
C4_NonEmptyPrefixIndexIff ==
    Loaded =>
        /\ \A s \in KeySamples \ {<<>>} : s \in ret.contains_longer <=> HasLongerKey(ret, s)
        /\ \A s \in ret.contains_longer : s # <<>> /\ HasLongerKey(ret, s)
        /\ <<>> \notin ret.contains_longer

\* C4 witness: the index of a loaded dictionary holds a multi-byte prefix of
\* one key and not another key's last character.
C4_Witness ==
    /\ Loaded
    /\ \E s \in ret.contains_longer : Len(s) > Len(codepoints(s))
    /\ \E s \in KeySamples \ {<<>>} : s \notin ret.contains_longer

\* C5 as stated: may_contain is true of every key and of every strict prefix
\* of a key, and false of a string that is neither a key nor a prefix of one.
C5_MayContain ==
    Loaded =>
        \A s \in KeySamples :
            /\ (s \in DOMAIN ret.dict \/ HasLongerKey(ret, s)) => may_contain(ret, s)
            /\ (s \notin DOMAIN ret.dict /\ ~HasLongerKey(ret, s)) => ~may_contain(ret, s)

\* C5 as amended: may_contain is true of every key and of every non-empty
\* strict prefix of a key, and false of every other string.
C5_MayContainNonEmpty ==
    Loaded =>
        \A s \in KeySamples :
            may_contain(ret, s) <=>
                (s \in DOMAIN ret.dict \/ (s # <<>> /\ HasLongerKey(ret, s)))

\* C5 witness: on one loaded dictionary may_contain accepts a key, accepts a
\* strict prefix that is no key, and rejects a string.
C5_Witness ==
    /\ Loaded
    /\ \E k \in DOMAIN ret.dict : may_contain(ret, k) /\ Len(codepoints(k)) >= 2
    /\ \E s \in KeySamples :
          s # <<>> /\ s \notin DOMAIN ret.dict /\ HasLongerKey(ret, s) /\ may_contain(ret, s)
    /\ \E s \in KeySamples : ~may_contain(ret, s)

====
